---- MODULE Spec2Model ----
(***************************************************************************)
(* Bingo session coordinator: the room registry (RoomManager, with the     *)
(* WebSocket / HTTP handlers of server.ts that drive it) and the round     *)
(* engine (GameManager).  JavaScript runs every handler to completion on   *)
(* one thread, so each handler is one atomic action.                       *)
(***************************************************************************)
EXTENDS Integers, Sequences, FiniteSets, TLC

\* ------------------------------------------------------------------ bounds
\* Identities that clients put in the playerId field of their messages,
\* besides the identities createRoom handed out.
NumIds == 2
\* Rooms alive at once.
MaxRooms == 2
\* Player entries held by the registry at once, over all rooms.
MaxAttached == 1

\* boardSeed values that createGame draws (Math.random() * 1000000 floored).
MaxSeed == 3
\* Numbers still undrawn at which callNumber's draw is explored in full.
DrawTail == 2
\* markNumber is explored while every score of the round is below this.
MaxScore == 200

VARIABLES
  rooms,         \* RoomManager.rooms : code -> Room
  roomCodes,     \* RoomManager.roomCodes : set of live codes
  games,         \* GameManager.games : code -> Game
  onlinePlayers, \* GameManager.onlinePlayers
  gen,           \* where startGame is inside board generation, or idle
  lastOp,        \* the last operation called and what it returned
  events         \* the broadcasts the last operation emitted, in order

vars == <<rooms, roomCodes, games, onlinePlayers, gen, lastOp, events>>
registryVars == <<rooms, roomCodes>>
engineVars == <<games, onlinePlayers, gen>>

\* ------------------------------------------------------------ basic values
\* The first two of the twelve words of generateRoomCode, transliterated.
Words == {"lemin", "bingo"}
\* `${word1}-${word2}` is modelled as the pair of its two words.
Codes == Words \X Words
NoCode == <<"", "">>
\* A falsy identity (null, undefined, "").
NullId == <<"", "", "">>
\* v4.generate() returns an identity no one holds yet.  Only equality of
\* identities is ever tested, so the uuid generated for the room that gets
\* code <<w1, w2>> is named by that code: distinct live rooms have distinct
\* ids, and none equals an identity a client made up.
Uuid(code) == <<"uuid", code[1], code[2]>>
ClientIds == {<<"id", ToString(i), "">> : i \in 1..NumIds}
\* What a client may send as playerId on /ws/<roomCode>: an identity of its
\* own, or the roomId that createRoom returned for that room (any other
\* uuid behaves there like an identity of its own).
IdsFor(roomCode) == ClientIds \cup {Uuid(roomCode)}

\* Map.set(k, v) / Map.delete(k) on a map held as a function.
MapSet(m, k, v) == [x \in (DOMAIN m) \cup {k} |-> IF x = k THEN v ELSE m[x]]
MapDelete(m, k) == [x \in (DOMAIN m) \ {k} |-> m[x]]

\* A room's players: a JavaScript Map iterates in insertion order, and
\* setting an existing key keeps its position.  Held as a sequence of
\* Player records with distinct ids.
PlayerIds(ps) == {ps[i].id : i \in 1..Len(ps)}
PlayersSet(ps, p) ==
  IF p.id \in PlayerIds(ps)
  THEN [i \in 1..Len(ps) |-> IF ps[i].id = p.id THEN p ELSE ps[i]]
  ELSE Append(ps, p)
PlayersDelete(ps, id) == SelectSeq(ps, LAMBDA q : q.id # id)

\* `Player ${n}`
PlayerName(n) == <<"Player", n>>
GivenName(n) == <<"Name", n>>

\* What the last call returned: the operation, the room code it was about,
\* its success flag and message, and the value returned (a number, a board).
NoOp == [op |-> "none", code |-> NoCode, ok |-> TRUE, msg |-> "", val |-> <<>>]
RetV(op, code, ok, msg, val) == [op |-> op, code |-> code, ok |-> ok, msg |-> msg, val |-> val]
Ret(op, code, ok, msg) == RetV(op, code, ok, msg, <<>>)

\* One thread runs every handler to completion: nothing else runs while
\* startGame is generating boards.
GenIdle == [pc |-> "idle"]
Idle == gen = GenIdle

Event(type, code, id, name) == [type |-> type, code |-> code, id |-> id, name |-> name]

\* ------------------------------------------------------------ RoomManager
\* The request bodies POSTed to /api/rooms/create that the model explores.
RoomConfigs ==
  { [hostName |-> GivenName(0), roomName |-> "room", maxPlayers |-> 2,
     gameType |-> "75ball", stake |-> 100] }

getWinPatterns(gameType) ==
  CASE gameType = "75ball" -> <<"row", "column", "diagonal", "four-corners", "full-house">>
    [] gameType = "90ball" -> <<"one-line", "two-lines", "full-house">>
    [] gameType = "30ball" -> <<"full-house">>
    [] gameType = "pattern" -> <<"x-pattern", "frame", "postage-stamp", "small-diamond">>
    [] OTHER -> <<"row", "column", "diagonal", "four-corners", "full-house">>

RECURSIVE SumLen(_, _)
SumLen(rs, cs) ==
  IF cs = {} THEN 0
  ELSE LET c == CHOOSE x \in cs : TRUE IN Len(rs[c].players) + SumLen(rs, cs \ {c})
TotalAttached == SumLen(rooms, DOMAIN rooms)

\* generateRoomCode: the codes the retry loop can leave with, i.e. the
\* codes word1-word2 for which roomCodes.has(code) is false.
generateRoomCode_NoRetry == Codes
generateRoomCode == Codes \ roomCodes

NewRoom(roomId, roomCode, data) ==
  [ id |-> roomId, code |-> roomCode, name |-> data.roomName,
    hostId |-> roomId, hostName |-> data.hostName,
    gameType |-> data.gameType, stake |-> data.stake,
    maxPlayers |-> data.maxPlayers, players |-> <<>>, gameStarted |-> FALSE,
    settings |-> [autoCallNumbers |-> TRUE, callInterval |-> 7000,
                  winPatterns |-> getWinPatterns(data.gameType)] ]

getRoom(roomCode) == IF roomCode \in DOMAIN rooms THEN {rooms[roomCode]} ELSE {}

\* joinRoom's result; the registry is left as it is.
joinRoom(roomCode) ==
  IF roomCode \notin DOMAIN rooms
  THEN Ret("joinRoom", roomCode, FALSE, "Room not found")
  ELSE LET room == rooms[roomCode] IN
    IF Len(room.players) >= room.maxPlayers
    THEN Ret("joinRoom", roomCode, FALSE, "Room is full")
    ELSE IF room.gameStarted
    THEN Ret("joinRoom", roomCode, FALSE, "Game has already started")
    ELSE Ret("joinRoom", roomCode, TRUE, "")

\* addPlayerToRoom: the room map afterwards.
addPlayerToRoom(roomCode, playerId) ==
  IF roomCode \notin DOMAIN rooms THEN rooms
  ELSE LET room == rooms[roomCode]
           hostId == IF Len(room.players) = 0 /\ room.hostId = NullId
                     THEN playerId ELSE room.hostId
           player == [ id |-> playerId, name |-> PlayerName(Len(room.players) + 1),
                       isHost |-> (playerId = hostId), isReady |-> FALSE, score |-> 0 ]
       IN MapSet(rooms, roomCode,
                 [room EXCEPT !.hostId = hostId,
                              !.players = PlayersSet(room.players, player)])

\* Array.from(room.players.values())[0]
NewHostIndex_Last(ps) == Len(ps)
NewHostIndex(ps) == 1

ReleaseCode_Keep(codes, roomCode) == codes
ReleaseCode(codes, roomCode) == codes \ {roomCode}

\* removePlayerFromRoom: the room map, the live codes, the newHost
\* broadcasts and the console line afterwards.
removePlayerFromRoom(roomCode, playerId) ==
  IF roomCode \notin DOMAIN rooms
  THEN [rooms |-> rooms, roomCodes |-> roomCodes, events |-> <<>>, log |-> ""]
  ELSE LET room == rooms[roomCode]
           left == PlayersDelete(room.players, playerId)
           reassign == playerId = room.hostId /\ Len(left) > 0
           h == NewHostIndex(left)
           newHost == [left[h] EXCEPT !.isHost = TRUE]
           after == IF reassign
                    THEN [room EXCEPT !.players = [left EXCEPT ![h] = newHost],
                                      !.hostId = newHost.id,
                                      !.hostName = newHost.name]
                    ELSE [room EXCEPT !.players = left]
       IN IF Len(left) = 0
          THEN [rooms |-> MapDelete(rooms, roomCode),
                roomCodes |-> ReleaseCode(roomCodes, roomCode),
                events |-> <<>>, log |-> "Room deleted"]
          ELSE [rooms |-> MapSet(rooms, roomCode, after),
                roomCodes |-> roomCodes,
                events |-> IF reassign
                           THEN <<Event("newHost", roomCode, newHost.id, newHost.name)>>
                           ELSE <<>>,
                log |-> ""]

\* broadcastToRoom (server.ts): one event for the room when the room exists
\* in the given room map; delivery to each open socket is the transport's.
broadcastToRoom(rs, roomCode, ev) == IF roomCode \in DOMAIN rs THEN <<ev>> ELSE <<>>

\* -------------------------------------------------------------- handlers
\* POST /api/rooms/create.  While some code is free the retry loop of
\* generateRoomCode leaves with one of the free codes; when none is, every
\* word pair it draws is in roomCodes and the handler stays in the loop.
ApiCreateRoom(data) ==
  /\ Idle
  /\ UNCHANGED <<games, onlinePlayers>>
  /\ events' = <<>>
  /\ IF generateRoomCode = {}
     THEN /\ gen' = [pc |-> "roomCode"]
          /\ lastOp' = Ret("createRoom", NoCode, FALSE, "not returned")
          /\ UNCHANGED registryVars
     ELSE /\ UNCHANGED gen
          /\ \E roomCode \in generateRoomCode :
               LET roomId == Uuid(roomCode) IN
               /\ rooms' = MapSet(rooms, roomCode, NewRoom(roomId, roomCode, data))
               /\ roomCodes' = roomCodes \cup {roomCode}
               /\ lastOp' = Ret("createRoom", roomCode, TRUE, "Room created successfully")

\* POST /api/rooms/join
ApiJoinRoom(roomCode) ==
  /\ Idle
  /\ lastOp' = joinRoom(roomCode)
  /\ events' = <<>>
  /\ UNCHANGED <<registryVars, engineVars>>

\* WebSocket message {type: "join"} on /ws/<roomCode>
WsJoin(roomCode, playerId) ==
  /\ Idle
  /\ UNCHANGED engineVars
  /\ rooms' = addPlayerToRoom(roomCode, playerId)
  /\ events' = broadcastToRoom(rooms', roomCode, Event("playerJoined", roomCode, playerId, <<>>))
  /\ lastOp' = Ret("addPlayerToRoom", roomCode, TRUE, "")
  /\ UNCHANGED roomCodes

\* WebSocket message {type: "leave"} on /ws/<roomCode>
WsLeave(roomCode, playerId) ==
  LET r == removePlayerFromRoom(roomCode, playerId) IN
  /\ Idle
  /\ UNCHANGED engineVars
  /\ rooms' = r.rooms
  /\ roomCodes' = r.roomCodes
  /\ events' = r.events \o broadcastToRoom(r.rooms, roomCode, Event("playerLeft", roomCode, playerId, <<>>))
  /\ lastOp' = Ret("removePlayerFromRoom", roomCode, TRUE, r.log)

\* ------------------------------------------------------------- GameManager
GameCodes == {<<"bingo", "bingo">>}
GameTypes == {"75ball", "90ball", "30ball", "pattern", "classic"}
Seeds == 0..MaxSeed
NoNumber == <<>>
NullTime == 0
Now == 1

\* seededRandom(seed): the fractional part of Math.sin(seed) * 10000, in
\* millionths, for the seeds 0..11.  `seed++` increments the callee's own
\* copy, so every call with the same seed returns the same value.
Million == 1000000
SinFraction == <<0, 709848, 974268, 200080, 975046, 757253,
                 845018, 865987, 582466, 184852, 788891, 97934>>
seededRandom_Advancing(seed) ==
  SinFraction[((seed + 3 * (IF gen.pc = "idle" THEN 0 ELSE gen.k - 1)) % 12) + 1]
seededRandom(seed) == SinFraction[seed + 1]

\* random(min, max) of generateBoard
random(seed, min, max) == ((seededRandom(seed) * (max - min + 1)) \div Million) + min

\* The variant whose generator generateBoard's switch selects.
BoardKind(gameType) ==
  CASE gameType = "75ball" -> "75ball"
    [] gameType = "90ball" -> "90ball"
    [] gameType = "30ball" -> "30ball"
    [] gameType = "pattern" -> "75ball"
    [] OTHER -> "75ball"

\* The [min, max] range of each draw-until-distinct loop of a generator, in
\* the order the generator runs them.
Columns(gameType) ==
  CASE BoardKind(gameType) = "75ball" ->
         <<<<1, 15>>, <<16, 30>>, <<31, 45>>, <<46, 60>>, <<61, 75>>>>
    [] BoardKind(gameType) = "90ball" ->
         <<<<1, 10>>, <<11, 20>>, <<21, 30>>, <<31, 40>>, <<41, 50>>,
           <<51, 60>>, <<61, 70>>, <<71, 80>>, <<81, 90>>>>
    [] OTHER -> <<<<1, 30>>>>

\* How many distinct values the loop of a column waits for.
ColumnTarget(gameType, seed) ==
  CASE BoardKind(gameType) = "75ball" -> 5
    [] BoardKind(gameType) = "90ball" -> random(seed, 1, 3)
    [] OTHER -> 9

\* Array.sort((a, b) => a - b) of an array of distinct numbers
RECURSIVE SortAsc(_)
SortAsc(xs) ==
  IF xs = <<>> THEN <<>>
  ELSE LET lo == CHOOSE i \in 1..Len(xs) : \A j \in 1..Len(xs) : xs[i] <= xs[j]
       IN <<xs[lo]>> \o SortAsc(SubSeq(xs, 1, lo - 1) \o SubSeq(xs, lo + 1, Len(xs)))

\* What a finished column adds to the board: sorted for 75ball and 30ball,
\* in insertion order for 90ball.
ColumnCells(gameType, numbers) ==
  IF BoardKind(gameType) = "90ball" THEN numbers ELSE SortAsc(numbers)

\* Set.add on a set held in insertion order
SetAdd(numbers, v) ==
  IF \E i \in 1..Len(numbers) : numbers[i] = v THEN numbers ELSE Append(numbers, v)

\* generateRandomNumber: the values the rejection loop can leave with; the
\* empty set stands for the null returned when every number was drawn.
MaxNumber(gameType) ==
  CASE gameType = "75ball" -> 75
    [] gameType = "pattern" -> 75
    [] gameType = "90ball" -> 90
    [] gameType = "30ball" -> 30
    [] OTHER -> 75
Includes(xs, v) == \E i \in 1..Len(xs) : xs[i] = v
Rejected_None(calledNumbers, number) == FALSE
Rejected(calledNumbers, number) == Includes(calledNumbers, number)
generateRandomNumber(gameType, calledNumbers) ==
  IF Len(calledNumbers) >= MaxNumber(gameType) THEN {}
  ELSE {number \in 1..MaxNumber(gameType) : ~Rejected(calledNumbers, number)}

\* boardToGrid: the 5x5 grid, rows and columns counted from 0; a cell past
\* the end of the board holds 0.
Cell(board, row, col) ==
  LET i == row * 5 + col + 1 IN IF i <= Len(board) THEN board[i] ELSE 0

checkPattern(board, markedNumbers, pattern) ==
  CASE pattern = "row" ->
         \E row \in 0..4 : \A col \in 0..4 :
           (row = 2 /\ col = 2) \/ Cell(board, row, col) \in markedNumbers
    [] pattern = "column" ->
         \E col \in 0..4 : \A row \in 0..4 :
           (row = 2 /\ col = 2) \/ Cell(board, row, col) \in markedNumbers
    [] pattern = "diagonal" ->
         \/ \A i \in 0..4 : i = 2 \/ Cell(board, i, i) \in markedNumbers
         \/ \A i \in 0..4 : i = 2 \/ Cell(board, i, 4 - i) \in markedNumbers
    [] pattern = "four-corners" ->
         /\ Cell(board, 0, 0) \in markedNumbers
         /\ Cell(board, 0, 4) \in markedNumbers
         /\ Cell(board, 4, 0) \in markedNumbers
         /\ Cell(board, 4, 4) \in markedNumbers
    [] pattern = "full-house" ->
         \A row \in 0..4 : \A col \in 0..4 :
           (row = 2 /\ col = 2) \/ Cell(board, row, col) \in markedNumbers
    [] OTHER -> FALSE

\* checkForWin: the first pattern of winPatterns that matches, "" for null.
checkForWin(board, markedNumbers, winPatterns) ==
  LET hits == {i \in 1..Len(winPatterns) : checkPattern(board, markedNumbers, winPatterns[i])}
  IN IF hits = {} THEN ""
     ELSE winPatterns[CHOOSE i \in hits : \A j \in hits : i <= j]

\* Math.floor(stake * playerCount * 0.8)
calculateScore_NoTake(stake, playerCount) == stake * playerCount
calculateScore(stake, playerCount) == (stake * playerCount * 8) \div 10

\* The settings a round is created with: those of a room of the variant
\* (room.settings.winPatterns, getWinPatterns), or the 75ball pattern list.
Stakes == {100, 101}
SettingsChoices(gameType) ==
  { [stake |-> st, autoCall |-> TRUE, callInterval |-> 7000, winPatterns |-> wp] :
      st \in Stakes, wp \in {getWinPatterns(gameType), getWinPatterns("75ball")} }

NewGame(roomCode, gameType, settings, boardSeed) ==
  [ roomCode |-> roomCode, type |-> gameType, players |-> <<>>,
    calledNumbers |-> <<>>, currentNumber |-> NoNumber,
    gameStarted |-> FALSE, gameEnded |-> FALSE,
    winner |-> NullId, winPattern |-> "",
    boardSeed |-> boardSeed, settings |-> settings ]

NewGamePlayer(playerId, playerName) ==
  [ id |-> playerId, name |-> playerName, board |-> <<>>, markedNumbers |-> {},
    isReady |-> FALSE, hasWon |-> FALSE, winTime |-> NullTime, score |-> 0 ]

PlayerIndex(ps, id) == CHOOSE i \in 1..Len(ps) : ps[i].id = id

Pending(op, roomCode) == Ret(op, roomCode, FALSE, "not returned")

\* createGame
CreateGame(roomCode, gameType, settings) ==
  /\ Idle
  /\ \E boardSeed \in Seeds :
       games' = MapSet(games, roomCode, NewGame(roomCode, gameType, settings, boardSeed))
  /\ lastOp' = Ret("createGame", roomCode, TRUE, "")
  /\ events' = <<>>
  /\ UNCHANGED <<registryVars, onlinePlayers, gen>>

\* addPlayerToGame; `if (game.gameStarted) return false`
JoinClosed_Never(game) == FALSE
JoinClosed(game) == game.gameStarted
AddPlayerToGame(roomCode, playerId, playerName) ==
  /\ Idle
  /\ events' = <<>>
  /\ UNCHANGED <<registryVars, gen>>
  /\ IF roomCode \notin DOMAIN games \/ JoinClosed(games[roomCode])
     THEN /\ lastOp' = Ret("addPlayerToGame", roomCode, FALSE, "")
          /\ UNCHANGED <<games, onlinePlayers>>
     ELSE /\ games' = [games EXCEPT ![roomCode].players =
                         PlayersSet(@, NewGamePlayer(playerId, playerName))]
          /\ onlinePlayers' = onlinePlayers \cup {playerId}
          /\ lastOp' = Ret("addPlayerToGame", roomCode, TRUE, "")

\* removePlayerFromGame
RemovePlayerFromGame(roomCode, playerId) ==
  /\ Idle
  /\ events' = <<>>
  /\ lastOp' = Ret("removePlayerFromGame", roomCode, TRUE, "")
  /\ UNCHANGED <<registryVars, gen>>
  /\ IF roomCode \notin DOMAIN games
     THEN UNCHANGED <<games, onlinePlayers>>
     ELSE LET left == PlayersDelete(games[roomCode].players, playerId) IN
          /\ onlinePlayers' = onlinePlayers \ {playerId}
          /\ games' = IF Len(left) = 0 THEN MapDelete(games, roomCode)
                      ELSE [games EXCEPT ![roomCode].players = left]

\* startGame, up to the first generateBoard call: the checks, and
\* game.gameStarted = true.
TooFewPlayers_None(game) == Len(game.players) < 1
TooFewPlayers(game) == Len(game.players) < 2
StartGame(roomCode) ==
  /\ Idle
  /\ events' = <<>>
  /\ UNCHANGED <<registryVars, onlinePlayers>>
  /\ IF roomCode \notin DOMAIN games
     THEN /\ lastOp' = Ret("startGame", roomCode, FALSE, "Game not found")
          /\ UNCHANGED <<games, gen>>
     ELSE IF games[roomCode].gameStarted
     THEN /\ lastOp' = Ret("startGame", roomCode, FALSE, "Game already started")
          /\ UNCHANGED <<games, gen>>
     ELSE IF TooFewPlayers(games[roomCode])
     THEN /\ lastOp' = Ret("startGame", roomCode, FALSE, "Need at least 2 players to start")
          /\ UNCHANGED <<games, gen>>
     ELSE /\ games' = [games EXCEPT ![roomCode].gameStarted = TRUE]
          /\ gen' = [pc |-> "draw", roomCode |-> roomCode, k |-> 1, col |-> 1,
                     numbers |-> <<>>, board |-> <<>>]
          /\ lastOp' = Pending("startGame", roomCode)

\* One pass of a generator's `while (numbers.size < n) numbers.add(random(min, max))`
GenAdd ==
  /\ gen.pc = "draw"
  /\ LET game == games[gen.roomCode]
         range == Columns(game.type)[gen.col]
     IN /\ Len(gen.numbers) < ColumnTarget(game.type, game.boardSeed)
        /\ gen' = [gen EXCEPT !.numbers =
                     SetAdd(@, random(game.boardSeed, range[1], range[2]))]
  /\ UNCHANGED <<registryVars, games, onlinePlayers, lastOp, events>>

\* The loop of a column is over: its values go to the board, the next column
\* starts.
GenColumn ==
  /\ gen.pc = "draw"
  /\ LET game == games[gen.roomCode] IN
     /\ Len(gen.numbers) >= ColumnTarget(game.type, game.boardSeed)
     /\ gen' = [gen EXCEPT !.board = @ \o ColumnCells(game.type, gen.numbers),
                           !.numbers = <<>>,
                           !.col = @ + 1,
                           !.pc = IF gen.col = Len(Columns(game.type))
                                  THEN "board" ELSE "draw"]
  /\ UNCHANGED <<registryVars, games, onlinePlayers, lastOp, events>>

\* generateBoard returned: the board goes to the next player of the `for`
\* loop of startGame (with a new empty mark set), or, after the last
\* player, it is the board that startGame returns.
GenBoard ==
  /\ gen.pc = "board"
  /\ LET game == games[gen.roomCode] IN
     IF gen.k <= Len(game.players)
     THEN /\ games' = [games EXCEPT ![gen.roomCode].players[gen.k] =
                         [@ EXCEPT !.board = gen.board, !.markedNumbers = {}]]
          /\ gen' = [gen EXCEPT !.k = @ + 1, !.col = 1, !.numbers = <<>>,
                                !.board = <<>>, !.pc = "draw"]
          /\ UNCHANGED lastOp
     ELSE /\ lastOp' = RetV("startGame", gen.roomCode, TRUE, "", gen.board)
          /\ gen' = GenIdle
          /\ UNCHANGED games
  /\ UNCHANGED <<registryVars, onlinePlayers, events>>

\* callNumber; `picks` are the outcomes of Math.random() that are explored.
CallNumber(roomCode, picks) ==
  /\ Idle
  /\ events' = <<>>
  /\ UNCHANGED <<registryVars, onlinePlayers, gen>>
  /\ IF \/ roomCode \notin DOMAIN games
        \/ ~games[roomCode].gameStarted
        \/ games[roomCode].gameEnded
        \/ generateRandomNumber(games[roomCode].type, games[roomCode].calledNumbers) = {}
     THEN /\ lastOp' = RetV("callNumber", roomCode, FALSE, "", NoNumber)
          /\ UNCHANGED games
     ELSE \E number \in generateRandomNumber(games[roomCode].type,
                                             games[roomCode].calledNumbers) \cap picks :
            /\ games' = [games EXCEPT ![roomCode].currentNumber = <<number>>,
                                      ![roomCode].calledNumbers = Append(@, number)]
            /\ lastOp' = RetV("callNumber", roomCode, TRUE, "", <<number>>)

\* markNumber: whether the call is accepted, and the game map afterwards.
markNumberAccepted_Unstarted(gs, roomCode, playerId) ==
  /\ roomCode \in DOMAIN gs
  /\ playerId \in PlayerIds(gs[roomCode].players)
markNumberAccepted(gs, roomCode, playerId) ==
  /\ roomCode \in DOMAIN gs
  /\ gs[roomCode].gameStarted
  /\ playerId \in PlayerIds(gs[roomCode].players)
markNumber(gs, roomCode, playerId, number) ==
  IF ~markNumberAccepted(gs, roomCode, playerId) THEN gs
  ELSE LET game == gs[roomCode]
           i == PlayerIndex(game.players, playerId)
           player == game.players[i]
           marked == player.markedNumbers \cup {number}
           winPattern == checkForWin(player.board, marked, game.settings.winPatterns)
           won == [player EXCEPT !.markedNumbers = marked,
                                 !.hasWon = TRUE,
                                 !.winTime = Now,
                                 !.score = @ + calculateScore(game.settings.stake,
                                                              Len(game.players))]
       IN IF winPattern # ""
          THEN [gs EXCEPT ![roomCode].winner = playerId,
                          ![roomCode].winPattern = winPattern,
                          ![roomCode].gameEnded = TRUE,
                          ![roomCode].players[i] = won]
          ELSE [gs EXCEPT ![roomCode].players[i].markedNumbers = marked]

MarkNumber(roomCode, playerId, number) ==
  /\ Idle
  /\ events' = <<>>
  /\ UNCHANGED <<registryVars, onlinePlayers, gen>>
  /\ lastOp' = Ret("markNumber", roomCode, markNumberAccepted(games, roomCode, playerId), "")
  /\ games' = markNumber(games, roomCode, playerId, number)

Init ==
  /\ rooms = <<>>
  /\ roomCodes = {}
  /\ games = <<>>
  /\ onlinePlayers = {}
  /\ gen = GenIdle
  /\ lastOp = NoOp
  /\ events = <<>>

\* The room codes that requests name: every live code, and one code that no
\* room has (the registry treats all absent codes alike).
AbsentCodes == Codes \ DOMAIN rooms
RequestCodes ==
  (DOMAIN rooms) \cup (IF AbsentCodes = {} THEN {} ELSE {CHOOSE c \in AbsentCodes : TRUE})

\* The registry with several rooms alive at once and few players.
Next ==
  \/ \E data \in RoomConfigs : Cardinality(DOMAIN rooms) < MaxRooms /\ ApiCreateRoom(data)
  \/ \E roomCode \in RequestCodes : ApiJoinRoom(roomCode)
  \/ \E roomCode \in RequestCodes : \E playerId \in IdsFor(roomCode) :
       TotalAttached < MaxAttached /\ WsJoin(roomCode, playerId)
  \/ \E roomCode \in RequestCodes : \E playerId \in IdsFor(roomCode) : WsLeave(roomCode, playerId)

Spec == Init /\ [][Next]_vars

\* The registry with one room alive at a time and as many players as there
\* are identities.
NextRoom ==
  \/ \E data \in RoomConfigs : DOMAIN rooms = {} /\ ApiCreateRoom(data)
  \/ \E roomCode \in RequestCodes : ApiJoinRoom(roomCode)
  \/ \E roomCode \in RequestCodes : \E playerId \in IdsFor(roomCode) : WsJoin(roomCode, playerId)
  \/ \E roomCode \in RequestCodes : \E playerId \in IdsFor(roomCode) : WsLeave(roomCode, playerId)

SpecRoom == Init /\ [][NextRoom]_vars

\* ------------------------------------------------------ the round engine
\* The numbers clients mark and that the draws of callNumber produce in the
\* engine's specification.
MarkNums == {0, 1}
EnginePicks == {1, 41}
ScoresBelow(roomCode, cap) ==
  roomCode \in DOMAIN games =>
    \A i \in 1..Len(games[roomCode].players) : games[roomCode].players[i].score < cap

NextEngine ==
  \/ \E roomCode \in GameCodes, gameType \in GameTypes :
       \E settings \in SettingsChoices(gameType) : CreateGame(roomCode, gameType, settings)
  \/ \E roomCode \in GameCodes, playerId \in ClientIds :
       AddPlayerToGame(roomCode, playerId, GivenName(0))
  \/ \E roomCode \in GameCodes, playerId \in ClientIds :
       RemovePlayerFromGame(roomCode, playerId)
  \/ \E roomCode \in GameCodes : StartGame(roomCode)
  \/ GenAdd
  \/ GenColumn
  \/ GenBoard
  \/ \E roomCode \in GameCodes : CallNumber(roomCode, EnginePicks)
  \/ \E roomCode \in GameCodes, playerId \in ClientIds, number \in MarkNums :
       ScoresBelow(roomCode, MaxScore) /\ MarkNumber(roomCode, playerId, number)

SpecEngine == Init /\ [][NextEngine]_vars

\* The draws of a round down to the exhaustion of its range: the lowest
\* undrawn number, and every outcome once at most DrawTail numbers are left.
Undrawn(game) ==
  {n \in 1..MaxNumber(game.type) : ~Includes(game.calledNumbers, n)}
TailPicks(roomCode) ==
  IF roomCode \notin DOMAIN games THEN {}
  ELSE LET free == Undrawn(games[roomCode]) IN
       IF Cardinality(free) <= DrawTail THEN 1..MaxNumber(games[roomCode].type)
       ELSE {CHOOSE n \in free : \A m \in free : n <= m}

DrawSettings == {settings \in SettingsChoices("90ball") : settings.stake = 100}
NextDraw ==
  \/ \E roomCode \in GameCodes :
       \E settings \in DrawSettings : CreateGame(roomCode, "90ball", settings)
  \/ \E roomCode \in GameCodes, playerId \in ClientIds :
       AddPlayerToGame(roomCode, playerId, GivenName(0))
  \/ \E roomCode \in GameCodes : StartGame(roomCode)
  \/ GenAdd
  \/ GenColumn
  \/ GenBoard
  \/ \E roomCode \in GameCodes : CallNumber(roomCode, TailPicks(roomCode))

SpecDraw == Init /\ [][NextDraw]_vars

\* ------------------------------------------------------ the periodic sweep
\* cleanupOldGames, the callback of the constructor's setInterval: it runs
\* between handlers, on the same thread.
SweepRemoves_Ended(game) == game.gameEnded
SweepRemoves(game) == game.gameEnded /\ Len(game.players) = 0
CleanupOldGames ==
  /\ Idle
  /\ games' = [roomCode \in {rc \in DOMAIN games : ~SweepRemoves(games[rc])} |->
                 games[roomCode]]
  /\ lastOp' = Ret("cleanupOldGames", NoCode, TRUE, "")
  /\ events' = <<>>
  /\ UNCHANGED <<registryVars, onlinePlayers, gen>>

\* The rounds of the 90ball variant from creation to their end, with the
\* sweep; setInterval fires the sweep again and again while the thread is
\* free.
NextSweep ==
  \/ \E roomCode \in GameCodes :
       \E settings \in SettingsChoices("90ball") : CreateGame(roomCode, "90ball", settings)
  \/ \E roomCode \in GameCodes, playerId \in ClientIds :
       AddPlayerToGame(roomCode, playerId, GivenName(0))
  \/ \E roomCode \in GameCodes, playerId \in ClientIds :
       RemovePlayerFromGame(roomCode, playerId)
  \/ \E roomCode \in GameCodes : StartGame(roomCode)
  \/ GenAdd
  \/ GenColumn
  \/ GenBoard
  \/ \E roomCode \in GameCodes, playerId \in ClientIds, number \in MarkNums :
       ScoresBelow(roomCode, MaxScore) /\ MarkNumber(roomCode, playerId, number)
  \/ CleanupOldGames

SpecSweep == Init /\ [][NextSweep]_vars /\ WF_vars(CleanupOldGames)

\* ------------------------------------------------- the registry's codes
\* The registry with as many rooms as there are codes, and the request
\* bodies of /api/rooms/create with a maxPlayers below 2 or a stake below 0
\* among them.
CodeConfigs ==
  { [hostName |-> GivenName(0), roomName |-> "room", maxPlayers |-> c[1],
     gameType |-> "75ball", stake |-> c[2]] : c \in {<<2, 100>>, <<1, 100>>, <<2, -1>>} }

NextCodes ==
  \/ \E data \in CodeConfigs : ApiCreateRoom(data)
  \/ \E roomCode \in RequestCodes, playerId \in ClientIds :
       TotalAttached < MaxAttached /\ WsJoin(roomCode, playerId)
  \/ \E roomCode \in RequestCodes, playerId \in ClientIds : WsLeave(roomCode, playerId)

SpecCodes == Init /\ [][NextCodes]_vars

\* ------------------------------------------------------------ one session
\* A room and the round filed under the room's code, driven over HTTP and
\* the WebSocket.  The room is a 90ball room: the variant whose startGame
\* can return and leave the server running.
SessionConfigs ==
  { [hostName |-> GivenName(0), roomName |-> "room", maxPlayers |-> 2,
     gameType |-> "90ball", stake |-> 100] }
Patterns == {"full-house"}

\* WebSocket message {type: "startGame"} on /ws/<roomCode>
WsStartGame(roomCode, playerId) ==
  /\ Idle
  /\ events' = IF \E room \in getRoom(roomCode) : room.hostId = playerId
               THEN broadcastToRoom(rooms, roomCode,
                                    Event("gameStarted", roomCode, NullId, <<>>))
               ELSE <<>>
  /\ lastOp' = Ret("wsStartGame", roomCode, TRUE, "")
  /\ UNCHANGED <<registryVars, engineVars>>

\* WebSocket message {type: "claimWin"} on /ws/<roomCode>
WsClaimWin(roomCode, playerId, pattern) ==
  /\ Idle
  /\ events' = broadcastToRoom(rooms, roomCode,
                               Event("winner", roomCode, playerId, <<pattern>>))
  /\ lastOp' = Ret("wsClaimWin", roomCode, TRUE, "")
  /\ UNCHANGED <<registryVars, engineVars>>

\* The settings of a round made for a room.
RoomSettings(room) ==
  [ stake |-> room.stake, autoCall |-> room.settings.autoCallNumbers,
    callInterval |-> room.settings.callInterval,
    winPatterns |-> room.settings.winPatterns ]

NextSession ==
  \/ \E data \in SessionConfigs : DOMAIN rooms = {} /\ ApiCreateRoom(data)
  \/ \E roomCode \in RequestCodes : ApiJoinRoom(roomCode)
  \/ \E roomCode \in RequestCodes, playerId \in ClientIds : WsJoin(roomCode, playerId)
  \/ \E roomCode \in RequestCodes, playerId \in ClientIds : WsLeave(roomCode, playerId)
  \/ \E roomCode \in RequestCodes : \E playerId \in IdsFor(roomCode) :
       WsStartGame(roomCode, playerId)
  \/ \E roomCode \in RequestCodes, playerId \in ClientIds, pattern \in Patterns :
       WsClaimWin(roomCode, playerId, pattern)
  \/ \E roomCode \in DOMAIN rooms :
       /\ DOMAIN games \subseteq {roomCode}
       /\ CreateGame(roomCode, rooms[roomCode].gameType, RoomSettings(rooms[roomCode]))
  \/ \E roomCode \in DOMAIN games, playerId \in ClientIds :
       AddPlayerToGame(roomCode, playerId, GivenName(0))
  \/ \E roomCode \in RequestCodes : StartGame(roomCode)
  \/ GenAdd
  \/ GenColumn
  \/ GenBoard

SpecSession == Init /\ [][NextSession]_vars

\* ------------------------------------------------------------------ claims
NewHostEvents(evs) == SelectSeq(evs, LAMBDA e : e.type = "newHost")
Hosts(ps) == {i \in 1..Len(ps) : ps[i].isHost}

\* C1: the rooms that exist have pairwise distinct codes (each is filed under
\* its own code, and the live-code set is exactly the codes of the rooms),
\* and createRoom hands out only a code that no room holds and that is not
\* in the live-code set.
LiveCodesDistinct ==
  /\ \A c1, c2 \in DOMAIN rooms : c1 # c2 => rooms[c1].code # rooms[c2].code
  /\ \A c \in DOMAIN rooms : rooms[c].code = c
  /\ roomCodes = DOMAIN rooms
C1_CodesUnique ==
  /\ LiveCodesDistinct
  /\ [][ /\ LiveCodesDistinct'
         /\ \A data \in RoomConfigs :
              (lastOp'.op = "createRoom" /\ lastOp'.ok /\ ApiCreateRoom(data)) =>
                /\ lastOp'.code \notin DOMAIN rooms
                /\ lastOp'.code \notin roomCodes
                /\ DOMAIN rooms' = (DOMAIN rooms) \cup {lastOp'.code} ]_vars
C1_Witness ==
  /\ lastOp.op = "createRoom"
  /\ Cardinality(DOMAIN rooms) = 2
  /\ \E c \in DOMAIN rooms : Len(rooms[c].players) > 0

\* C2: no room ever holds more players than its maxPlayers.
C2_CapacityRespected ==
  \A c \in DOMAIN rooms : Len(rooms[c].players) <= rooms[c].maxPlayers

\* C3: every room with at least one player has exactly one player whose
\* host flag is true, and hostId is that player's identity.
C3_ExactlyOneHost ==
  \A c \in DOMAIN rooms :
    Len(rooms[c].players) >= 1 =>
      \E i \in 1..Len(rooms[c].players) :
        /\ Hosts(rooms[c].players) = {i}
        /\ rooms[c].hostId = rooms[c].players[i].id

\* A draw loop that still waits for values and whose next value is one it
\* already holds: every later pass draws that same value again.
GenStuck ==
  /\ gen.pc = "draw"
  /\ LET game == games[gen.roomCode]
         range == Columns(game.type)[gen.col]
     IN /\ Len(gen.numbers) < ColumnTarget(game.type, game.boardSeed)
        /\ SetAdd(gen.numbers, random(game.boardSeed, range[1], range[2])) = gen.numbers

Distinct(xs) == \A i, j \in 1..Len(xs) : i # j => xs[i] # xs[j]
BoardSizes(gameType) ==
  CASE gameType = "75ball" -> 25..25
    [] gameType = "pattern" -> 25..25
    [] gameType = "30ball" -> 9..9
    [] gameType = "90ball" -> 9..27
    [] OTHER -> 25..25
PrescribedBoard(gameType, board) ==
  /\ Len(board) \in BoardSizes(gameType)
  /\ Distinct(board)
  /\ \A i \in 1..Len(board) : board[i] \in 1..MaxNumber(gameType)

\* C4: once gameEnded is true, no markNumber call changes winner or
\* winPattern or makes the won flag of a further player true.
C4_WinnerStable ==
  [][ \A roomCode \in DOMAIN games : \A playerId \in ClientIds, number \in MarkNums :
        (games[roomCode].gameEnded /\ MarkNumber(roomCode, playerId, number)) =>
          /\ games'[roomCode].winner = games[roomCode].winner
          /\ games'[roomCode].winPattern = games[roomCode].winPattern
          /\ \A i \in 1..Len(games[roomCode].players) :
               games'[roomCode].players[i].hasWon => games[roomCode].players[i].hasWon ]_vars

\* C5: a startGame call on an existing round leaves it not started exactly
\* when fewer than 2 players are registered, and then returns the
\* insufficient-players error; otherwise the round is started and the call
\* has returned success, or returned already-started, or is still able to
\* go on towards its return.
C5_StartGameContract ==
  (lastOp.op = "startGame" /\ lastOp.code \in DOMAIN games) =>
    LET game == games[lastOp.code] IN
    /\ ~game.gameStarted =>
         /\ Len(game.players) < 2
         /\ lastOp = Ret("startGame", lastOp.code, FALSE, "Need at least 2 players to start")
    /\ game.gameStarted =>
         \/ lastOp.ok
         \/ lastOp = Ret("startGame", lastOp.code, FALSE, "Game already started")
         \/ lastOp = Pending("startGame", lastOp.code) /\ ~Idle /\ ~GenStuck

\* C6: callNumber returns a number of the variant's range that is not yet
\* in calledNumbers and appends it, so calledNumbers never holds a
\* duplicate; it returns null and changes nothing when the whole range has
\* been drawn.
CalledNumbersValid ==
  \A roomCode \in DOMAIN games :
    /\ Distinct(games[roomCode].calledNumbers)
    /\ \A i \in 1..Len(games[roomCode].calledNumbers) :
         games[roomCode].calledNumbers[i] \in 1..MaxNumber(games[roomCode].type)
C6_NoRepeatedNumber ==
  /\ CalledNumbersValid
  /\ [][ /\ CalledNumbersValid'
         /\ \A roomCode \in DOMAIN games :
              (/\ lastOp'.op = "callNumber"
               /\ CallNumber(roomCode, 1..MaxNumber(games[roomCode].type))) =>
                LET game == games[roomCode] IN
                IF lastOp'.val = NoNumber
                THEN /\ games' = games
                     /\ (game.gameStarted /\ ~game.gameEnded) => Undrawn(game) = {}
                ELSE /\ Undrawn(game) # {}
                     /\ lastOp'.val[1] \in Undrawn(game)
                     /\ games'[roomCode].calledNumbers = Append(game.calledNumbers, lastOp'.val[1])
                     /\ games'[roomCode].currentNumber = lastOp'.val ]_vars
C6_Witness ==
  /\ lastOp.op = "callNumber"
  /\ lastOp.val = NoNumber
  /\ lastOp.code \in DOMAIN games
  /\ games[lastOp.code].gameStarted
  /\ Len(games[lastOp.code].calledNumbers) = 90
  /\ games[lastOp.code].currentNumber # <<90>>

C8_GenerationTerminates == ~GenStuck

\* C9: removing the identity that is the room's hostId while other players
\* remain makes the earliest-joined survivor the one host (hostId, hostName
\* and host flag) and emits exactly one newHost event, for that player;
\* removing any other identity emits no newHost and leaves hostId, hostName
\* and the survivors as they were.
C9_HostSuccession ==
  [][ \A c \in DOMAIN rooms : \A p \in IdsFor(c) :
        (lastOp'.op = "removePlayerFromRoom" /\ WsLeave(c, p)) =>
          LET room == rooms[c]
              left == PlayersDelete(room.players, p)
          IN /\ (p = room.hostId /\ Len(left) > 0) =>
                  /\ c \in DOMAIN rooms'
                  /\ rooms'[c].hostId = left[1].id
                  /\ rooms'[c].hostName = left[1].name
                  /\ Hosts(rooms'[c].players) = {1}
                  /\ rooms'[c].players = [left EXCEPT ![1].isHost = TRUE]
                  /\ NewHostEvents(events') = <<Event("newHost", c, left[1].id, left[1].name)>>
             /\ p # room.hostId =>
                  /\ NewHostEvents(events') = <<>>
                  /\ c \in DOMAIN rooms' =>
                       /\ rooms'[c].hostId = room.hostId
                       /\ rooms'[c].hostName = room.hostName
                       /\ rooms'[c].players = left ]_vars
C9_Witness ==
  /\ lastOp.op = "removePlayerFromRoom"
  /\ Len(NewHostEvents(events)) = 1
  /\ Len(rooms[lastOp.code].players) = 2
  /\ rooms[lastOp.code].hostId = rooms[lastOp.code].players[1].id

\* C10: removing the last player of a room deletes the room and releases
\* its code, so getRoom finds nothing under that code; and a code that has
\* no room gets one again only by a createRoom that allocates that code.
C10_EmptyRoomReleased ==
  [][ /\ \A c \in DOMAIN rooms : \A p \in IdsFor(c) :
           (WsLeave(c, p) /\ PlayerIds(rooms[c].players) = {p}) =>
             /\ c \notin DOMAIN rooms'
             /\ c \notin roomCodes'
             /\ getRoom(c)' = {}
      /\ \A c \in Codes :
           (getRoom(c) = {} /\ getRoom(c)' # {}) =>
             /\ \E data \in RoomConfigs : ApiCreateRoom(data)
             /\ lastOp' = Ret("createRoom", c, TRUE, "Room created successfully")
             /\ c \notin roomCodes ]_vars
C10_Witness ==
  /\ lastOp.op = "removePlayerFromRoom"
  /\ lastOp.msg = "Room deleted"
  /\ getRoom(lastOp.code) = {}
  /\ lastOp.code \notin roomCodes
  /\ DOMAIN rooms # {}

\* C11: a markNumber call that detects a win sets, in that one step,
\* gameEnded, winner, winPattern and the player's hasWon, and credits the
\* player floor(0.8 * stake * playerCount); a call that detects no win sets
\* none of them and credits nothing.
C11_WinRecordedWithScore ==
  [][ \A roomCode \in DOMAIN games : \A playerId \in ClientIds, number \in MarkNums :
        (/\ lastOp'.op = "markNumber"
         /\ games[roomCode].gameStarted
         /\ playerId \in PlayerIds(games[roomCode].players)
         /\ MarkNumber(roomCode, playerId, number)) =>
          LET game == games[roomCode]
              after == games'[roomCode]
              i == PlayerIndex(game.players, playerId)
              hit == checkForWin(game.players[i].board,
                                 game.players[i].markedNumbers \cup {number},
                                 game.settings.winPatterns)
          IN IF hit # ""
             THEN /\ after.gameEnded
                  /\ after.winner = playerId
                  /\ after.winPattern = hit
                  /\ after.players[i].hasWon
                  /\ after.players[i].score = game.players[i].score
                       + (4 * game.settings.stake * Len(game.players)) \div 5
             ELSE /\ after.gameEnded = game.gameEnded
                  /\ after.winner = game.winner
                  /\ after.winPattern = game.winPattern
                  /\ after.players[i].hasWon = game.players[i].hasWon
                  /\ after.players[i].score = game.players[i].score ]_vars
C11_Witness ==
  /\ lastOp.op = "markNumber"
  /\ lastOp.ok
  /\ lastOp.code \in DOMAIN games
  /\ LET game == games[lastOp.code] IN
     /\ game.gameEnded
     /\ game.settings.stake = 101
     /\ Len(game.players) = 2
     /\ game.winPattern = "row"
     /\ \E i \in 1..2 : /\ game.players[i].id = game.winner
                         /\ game.players[i].hasWon
                         /\ game.players[i].score = 161
\* C12: markNumber is idempotent: in a started round, a second
\* markNumber(room, player, n) right after the first leaves the round as
\* the first call left it (the win time aside).
SameButWinTime(g1, g2) ==
  /\ DOMAIN g1 = DOMAIN g2
  /\ \A roomCode \in DOMAIN g1 :
       /\ [g1[roomCode] EXCEPT !.players = <<>>] = [g2[roomCode] EXCEPT !.players = <<>>]
       /\ Len(g1[roomCode].players) = Len(g2[roomCode].players)
       /\ \A i \in 1..Len(g1[roomCode].players) :
            [g1[roomCode].players[i] EXCEPT !.winTime = NullTime]
              = [g2[roomCode].players[i] EXCEPT !.winTime = NullTime]
C12_MarkIdempotent ==
  Idle =>
    \A roomCode \in DOMAIN games : \A playerId \in ClientIds, number \in MarkNums :
      markNumberAccepted(games, roomCode, playerId) =>
        LET once == markNumber(games, roomCode, playerId, number)
            twice == markNumber(once, roomCode, playerId, number)
        IN SameButWinTime(once, twice)
\* C13: once a round is ended, a callNumber or markNumber call on it
\* changes nothing of it: calledNumbers and currentNumber stay, and so do
\* every player's markedNumbers and score.
RoundFrozen(before, after) ==
  /\ after.calledNumbers = before.calledNumbers
  /\ after.currentNumber = before.currentNumber
  /\ Len(after.players) = Len(before.players)
  /\ \A i \in 1..Len(before.players) :
       /\ after.players[i].markedNumbers = before.players[i].markedNumbers
       /\ after.players[i].score = before.players[i].score
C13_NoEffectAfterEnded ==
  [][ \A roomCode \in DOMAIN games :
        (/\ games[roomCode].gameEnded
         /\ \/ CallNumber(roomCode, 1..MaxNumber(games[roomCode].type))
            \/ \E playerId \in ClientIds, number \in MarkNums :
                 MarkNumber(roomCode, playerId, number)) =>
          /\ roomCode \in DOMAIN games'
          /\ RoundFrozen(games[roomCode], games'[roomCode]) ]_vars
\* C14: joinRoom answers room-not-found when no room has the code,
\* room-full when the room holds maxPlayers members or more,
\* game-already-started when the round of the room has been started, and
\* succeeds exactly when none of these is the case; it never changes the
\* registry.
JoinErrors(roomCode) ==
  IF roomCode \notin DOMAIN rooms THEN {"Room not found"}
  ELSE (IF Len(rooms[roomCode].players) >= rooms[roomCode].maxPlayers
        THEN {"Room is full"} ELSE {})
       \cup (IF roomCode \in DOMAIN games /\ games[roomCode].gameStarted
             THEN {"Game has already started"} ELSE {})
JoinAnswered ==
  lastOp.op = "joinRoom" =>
    /\ lastOp.ok <=> JoinErrors(lastOp.code) = {}
    /\ ~lastOp.ok => lastOp.msg \in JoinErrors(lastOp.code)
C14_JoinRoomErrors ==
  /\ JoinAnswered
  /\ [][ /\ JoinAnswered'
         /\ \A roomCode \in Codes :
              ApiJoinRoom(roomCode) => rooms' = rooms /\ roomCodes' = roomCodes ]_vars
\* C15: a createRoom call with maxPlayers < 2 or stake < 0 fails: it
\* creates no room, allocates no code and does not answer success.
C15_InvalidConfigRejected ==
  [][ \A data \in CodeConfigs :
        (ApiCreateRoom(data) /\ (data.maxPlayers < 2 \/ data.stake < 0)) =>
          /\ rooms' = rooms
          /\ roomCodes' = roomCodes
          /\ ~lastOp'.ok ]_vars

\* C16: a winner event for player p with pattern w is broadcast to the
\* members of a room only if the round of that room records winner = p and
\* winPattern = w at that moment.
C16_WinnerEventVerified ==
  \A k \in 1..Len(events) :
    (/\ events[k].type = "winner"
     /\ \E room \in getRoom(events[k].code) : Len(room.players) > 0) =>
      /\ events[k].code \in DOMAIN games
      /\ games[events[k].code].gameEnded
      /\ games[events[k].code].winner = events[k].id
      /\ <<games[events[k].code].winPattern>> = events[k].name
\* C17: a board is assigned once, at round start: no player of a round
\* that is not started has a board, and once startGame has returned, no
\* startGame, addPlayerToGame, callNumber, markNumber or
\* removePlayerFromGame call changes the board of a player still in the
\* round or adds a player to it.
NoBoardBeforeStart ==
  \A roomCode \in DOMAIN games :
    ~games[roomCode].gameStarted =>
      \A i \in 1..Len(games[roomCode].players) : games[roomCode].players[i].board = <<>>
C17_BoardImmutable ==
  /\ NoBoardBeforeStart
  /\ [][ /\ NoBoardBeforeStart'
         /\ \A roomCode \in DOMAIN games :
              (/\ games[roomCode].gameStarted
               /\ Idle
               /\ lastOp'.op # "createGame"
               /\ roomCode \in DOMAIN games') =>
                \A j \in 1..Len(games'[roomCode].players) :
                  \E i \in 1..Len(games[roomCode].players) :
                    /\ games[roomCode].players[i].id = games'[roomCode].players[j].id
                    /\ games[roomCode].players[i].board = games'[roomCode].players[j].board ]_vars
C17_Witness ==
  /\ lastOp.op = "addPlayerToGame"
  /\ ~lastOp.ok
  /\ lastOp.code \in DOMAIN games
  /\ LET game == games[lastOp.code] IN
     /\ game.gameStarted
     /\ Len(game.players) = 1
     /\ Len(game.players[1].board) = 9
     /\ game.players[1].markedNumbers # {}
     /\ game.calledNumbers # <<>>

\* C18: createRoom terminates in every registry state: the retry loop of
\* generateRoomCode is never left drawing codes that are all held.
CodeLoopStuck == gen.pc = "roomCode" /\ generateRoomCode = {}
C18_CreateRoomTerminates == ~CodeLoopStuck
\* C19: startGame completes before any markNumber of the round is accepted:
\* whenever a handler can run and finds gameStarted true, every player of
\* the round has a board; when startGame returns, every player has a board
\* and an empty mark set; and every accepted markNumber is evaluated on a
\* round all of whose players have their boards.
AllBoardsAssigned(game) ==
  \A i \in 1..Len(game.players) : game.players[i].board # <<>>
StartCompleted ==
  /\ \A roomCode \in DOMAIN games :
       (games[roomCode].gameStarted /\ gen.pc = "idle") =>
         AllBoardsAssigned(games[roomCode])
  /\ (lastOp.op = "startGame" /\ lastOp.ok) =>
       /\ lastOp.code \in DOMAIN games
       /\ AllBoardsAssigned(games[lastOp.code])
       /\ \A i \in 1..Len(games[lastOp.code].players) :
            games[lastOp.code].players[i].markedNumbers = {}
C19_StartCompletesBeforeMark ==
  /\ StartCompleted
  /\ [][ /\ StartCompleted'
         /\ \A roomCode \in GameCodes, playerId \in ClientIds, number \in MarkNums :
              (/\ lastOp'.op = "markNumber"
               /\ lastOp'.ok
               /\ MarkNumber(roomCode, playerId, number)) =>
                /\ games[roomCode].gameStarted
                /\ AllBoardsAssigned(games[roomCode]) ]_vars
C19_Witness ==
  /\ lastOp.op = "markNumber"
  /\ lastOp.ok
  /\ lastOp.code \in DOMAIN games
  /\ LET game == games[lastOp.code] IN
     /\ game.gameStarted
     /\ ~game.gameEnded
     /\ Len(game.players) = 2
     /\ AllBoardsAssigned(game)
     /\ game.players[1].markedNumbers = {1}
     /\ game.players[2].markedNumbers = {}
\* C20: a room disappears only by the departure of a member that leaves it
\* empty, and a leave or disconnect for an identity that is not a member
\* of the room leaves the registry as it is.
C20_DestroyedOnlyByDeparture ==
  [][ /\ \A c \in DOMAIN rooms :
           c \notin DOMAIN rooms' =>
             \E p \in IdsFor(c) :
               /\ WsLeave(c, p)
               /\ PlayerIds(rooms[c].players) = {p}
      /\ \A c \in Codes : \A p \in IdsFor(c) :
           (WsLeave(c, p) /\ \A room \in getRoom(c) : p \notin PlayerIds(room.players)) =>
             /\ rooms' = rooms
             /\ roomCodes' = roomCodes ]_vars
\* C21: a removePlayerFromGame call that removes the last player of a round
\* deletes the round in that step; a sweep removes every round that is
\* ended and has no players and no other round, so that under fairness of
\* the sweep every ended round without players is eventually removed.
EndedAndEmpty(roomCode) ==
  /\ roomCode \in DOMAIN games
  /\ games[roomCode].gameEnded
  /\ Len(games[roomCode].players) = 0
RoundsOwned == DOMAIN games \subseteq DOMAIN rooms
C22_RoomOwnsRound ==
  /\ RoundsOwned
  /\ [][ /\ RoundsOwned'
         /\ \A c \in DOMAIN rooms : \A p \in ClientIds :
              (/\ lastOp'.op = "removePlayerFromRoom"
               /\ p \in PlayerIds(rooms[c].players)
               /\ WsLeave(c, p)) =>
                (c \in DOMAIN games' => p \notin PlayerIds(games'[c].players)) ]_vars
\* C23: board generation is deterministic per seed: within a round every
\* run of generateBoard gives the same board, so the boards assigned to the
\* players are equal and the board that startGame returns equals the board
\* of each registered player.
C23_BoardsDeterministic ==
  \A roomCode \in DOMAIN games :
    LET game == games[roomCode] IN
    game.gameStarted =>
      /\ \A i, j \in 1..Len(game.players) :
           (game.players[i].board # <<>> /\ game.players[j].board # <<>>) =>
             game.players[i].board = game.players[j].board
      /\ (lastOp.op = "startGame" /\ lastOp.ok /\ lastOp.code = roomCode) =>
           \A i \in 1..Len(game.players) : game.players[i].board = lastOp.val
C23_Witness ==
  /\ lastOp.op = "startGame"
  /\ lastOp.ok
  /\ lastOp.code \in DOMAIN games
  /\ lastOp.val = <<3, 13, 23, 33, 43, 53, 63, 73, 83>>
  /\ games[lastOp.code].boardSeed = 3
  /\ Len(games[lastOp.code].players) = 2
  /\ \A i \in 1..2 : games[lastOp.code].players[i].board = lastOp.val
\* C24: every number in a player's markedNumbers is one of the round's
\* calledNumbers, so that no win is recorded on numbers that were not
\* drawn.
C24_MarksWereCalled ==
  \A roomCode \in DOMAIN games :
    \A i \in 1..Len(games[roomCode].players) :
      \A number \in games[roomCode].players[i].markedNumbers :
        Includes(games[roomCode].calledNumbers, number)
====
